---- MODULE Spec2Model ----
(***************************************************************************)
(* Model of the echoer service: the request normalizer (echo), the SOAP    *)
(* and JSON-RPC codecs and the REST / SOAP / JSON-RPC route handlers.      *)
(*                                                                         *)
(* Representation.  A Python str is a sequence of character tokens (a      *)
(* token is one character, or a chunk of plain ASCII letters).  Python     *)
(* values are tagged records [t |-> ...]; a field name always carries one  *)
(* type of value.  A request body (bytes) is one of                        *)
(*   [kind |-> "raw",  bytes]            arbitrary bytes                   *)
(*   [kind |-> "xml",  decl, enc, root]  an XML document: its encoding     *)
(*                                       declaration, the encoding its     *)
(*                                       bytes are really written in, and  *)
(*                                       its element tree in source form   *)
(*   [kind |-> "json", ast]              a JSON text (always ASCII)        *)
(* Library calls (bytes.decode, ElementTree, json, jsonschema) are         *)
(* modelled by their observable results, exceptions included; interpreter  *)
(* resource limits (recursion depth, integer digit limit, memory) are not  *)
(* modelled.                                                               *)
(***************************************************************************)
EXTENDS Integers, Sequences, FiniteSets, TLC

VARIABLES pc, route, req, resp

vars == <<pc, route, req, resp>>

\* ------------------------------------------------------------------ bounds
MaxBytes == 3
MaxText == 2

\* --------------------------------------------------------- python values
PyNone == [t |-> "none"]
PyStr(s) == [t |-> "str", s |-> s]
PyInt(i) == [t |-> "int", i |-> i]
PyFloat(f) == [t |-> "float", f |-> f]
PyBool(b) == [t |-> "bool", b |-> b]
PyList(l) == [t |-> "list", l |-> l]
PyTuple(l) == [t |-> "tuple", tl |-> l]
PyDict(d) == [t |-> "dict", d |-> d]
\* the str holding the text of a whole (UTF-8 valid) xml / json body
PyStrOf(data) == [t |-> "strof", doc |-> data]
\* markupsafe.Markup, a str subclass
PyMarkup(s) == [t |-> "markup", m |-> s]

Raise(e) == [t |-> "raise", exc |-> e, msg |-> ""]
RaiseMsg(e, m) == [t |-> "raise", exc |-> e, msg |-> m]
IsRaise(v) == v.t = "raise"

SeqMap(Op(_), s) == [i \in 1..Len(s) |-> Op(s[i])]

RECURSIVE Flatten(_)
Flatten(ss) == IF ss = <<>> THEN <<>> ELSE Head(ss) \o Flatten(Tail(ss))

\* ------------------------------------------------------------ characters
\* U+0001 is a control character that may not occur in an XML document
AsciiChars == {"a", " ", "\n", "\r", "<", ">", "&", "\"", "'", "U+0001"}
Chars == AsciiChars \cup {"U+00E9"}

IsAsciiTok(c) == c \notin {"U+00E9", "U+00C3", "U+00A9"}

\* ---------------------------------------------------- bytes.decode("utf-8")
ByteAlphabet == {97, 195, 169, 255}

IsContinuation(b) == b >= 128 /\ b <= 191

Chr(cp) == IF cp = 233 THEN "U+00E9" ELSE "a"

RECURSIVE Utf8DecodeBytes(_)
Utf8DecodeBytes(bs) ==
    IF bs = <<>> THEN PyStr(<<>>)
    ELSE LET b == Head(bs) IN
         IF b < 128
         THEN LET r == Utf8DecodeBytes(Tail(bs)) IN
              IF IsRaise(r) THEN r ELSE PyStr(<<Chr(b)>> \o r.s)
         ELSE IF b >= 194 /\ b <= 223 /\ Len(bs) >= 2 /\ IsContinuation(bs[2])
         THEN LET r == Utf8DecodeBytes(Tail(Tail(bs))) IN
              IF IsRaise(r) THEN r
              ELSE PyStr(<<Chr((b - 192) * 64 + (bs[2] - 128))>> \o r.s)
         ELSE Raise("UnicodeDecodeError")

\* -------------------------------------------------------------- xml trees
Elem(ns, local, attrib, text, kids) ==
    [ns |-> ns, local |-> local, attrib |-> attrib, text |-> text, kids |-> kids]

\* element text: absent, a token sequence, or a JSON text (see json_dumps)
NoText == [x |-> "none"]
Toks(s) == [x |-> "toks", toks |-> s]

SOAP_ENVELOPE == "http://schemas.xmlsoap.org/soap/envelope/"
SOAP_TNS == "http://0.0.0.0:5080/echo/soap"

\* ElementTree._escape_cdata: only & < > are replaced in element text
XmlEscapeTok(c) ==
    CASE c = "&" -> "&amp;"
      [] c = "<" -> "&lt;"
      [] c = ">" -> "&gt;"
      [] OTHER -> c

\* the parser's replacement of a predefined entity / character reference
XmlUnescapeTok(c) ==
    CASE c = "&amp;" -> "&"
      [] c = "&lt;" -> "<"
      [] c = "&gt;" -> ">"
      [] c = "&quot;" -> "\""
      [] c = "&apos;" -> "'"
      [] c = "&#13;" -> "\r"
      [] OTHER -> c

\* XML 1.0 end-of-line handling: a literal CR LF pair and a lone literal CR
\* both become LF (a CR written as the reference &#13; is kept)
RECURSIVE NormalizeEol(_)
NormalizeEol(s) ==
    IF s = <<>> THEN <<>>
    ELSE IF Head(s) = "\r"
    THEN IF Len(s) >= 2 /\ s[2] = "\n"
         THEN <<"\n">> \o NormalizeEol(Tail(Tail(s)))
         ELSE <<"\n">> \o NormalizeEol(Tail(s))
    ELSE <<Head(s)>> \o NormalizeEol(Tail(s))

\* a source token that makes character data not well-formed
BadXmlTok(c) == c \in {"<", "&", "U+0001"}

\* reading a non-ASCII character through the declared encoding
DecodeXmlTok(c, decl, enc) ==
    IF c = "U+00E9" /\ enc = "utf-8" /\ decl = "ISO-8859-1"
    THEN <<"U+00C3", "U+00A9">>
    ELSE <<c>>

\* ------------------------------------------------------------- json texts
\* A JSON text is kept as its syntax tree; string literals are kept as the
\* token sequence written between the quotes (escapes included).
JNull == [j |-> "null"]
JBool(b) == [j |-> "bool", jb |-> b]
JInt(i) == [j |-> "int", ji |-> i]
JFloat(f) == [j |-> "float", jf |-> f]
JString(s) == [j |-> "string", js |-> s]
JArray(a) == [j |-> "array", ja |-> a]
JObject(o) == [j |-> "object", jo |-> o]
JStringOf(data) == [j |-> "stringof", jdoc |-> data]

\* json.dumps with ensure_ascii=True: escapes inside a string literal
JsonEscapeTok(c) ==
    CASE c = "\"" -> "\\\""
      [] c = "\n" -> "\\n"
      [] c = "\r" -> "\\r"
      [] c = "U+0001" -> "\\u0001"
      [] c = "U+00E9" -> "\\u00e9"
      [] c = "U+00C3" -> "\\u00c3"
      [] c = "U+00A9" -> "\\u00a9"
      [] OTHER -> c

JsonUnescapeTok(c) ==
    CASE c = "\\\"" -> "\""
      [] c = "\\n" -> "\n"
      [] c = "\\r" -> "\r"
      [] c = "\\u0001" -> "U+0001"
      [] c = "\\u00e9" -> "U+00E9"
      [] c = "\\u00c3" -> "U+00C3"
      [] c = "\\u00a9" -> "U+00A9"
      [] OTHER -> c

RECURSIVE json_dumps(_)
json_dumps(v) ==
    CASE v.t = "none" -> JNull
      [] v.t = "bool" -> JBool(v.b)
      [] v.t = "int" -> JInt(v.i)
      [] v.t = "float" -> JFloat(v.f)
      [] v.t = "str" -> JString(SeqMap(JsonEscapeTok, v.s))
      [] v.t = "markup" -> JString(SeqMap(JsonEscapeTok, v.m))
      [] v.t = "strof" -> JStringOf(v.doc)
      [] v.t = "list" -> JArray([i \in 1..Len(v.l) |-> json_dumps(v.l[i])])
      [] v.t = "tuple" -> JArray([i \in 1..Len(v.tl) |-> json_dumps(v.tl[i])])
      [] v.t = "dict" -> JObject([k \in DOMAIN v.d |-> json_dumps(v.d[k])])

RECURSIVE json_loads(_)
json_loads(a) ==
    CASE a.j = "null" -> PyNone
      [] a.j = "bool" -> PyBool(a.jb)
      [] a.j = "int" -> PyInt(a.ji)
      [] a.j = "float" -> PyFloat(a.jf)
      [] a.j = "string" -> PyStr(SeqMap(JsonUnescapeTok, a.js))
      [] a.j = "stringof" -> PyStrOf(a.jdoc)
      [] a.j = "array" -> PyList([i \in 1..Len(a.ja) |-> json_loads(a.ja[i])])
      [] a.j = "object" -> PyDict([k \in DOMAIN a.jo |-> json_loads(a.jo[k])])

\* apply a character-token rewriting to every string literal of a JSON text
RECURSIVE MapJsonStrings(_, _)
MapJsonStrings(Op(_), a) ==
    CASE a.j = "string" -> JString(SeqMap(Op, a.js))
      [] a.j = "array" -> JArray([i \in 1..Len(a.ja) |-> MapJsonStrings(Op, a.ja[i])])
      [] a.j = "object" -> JObject([k \in DOMAIN a.jo |-> MapJsonStrings(Op, a.jo[k])])
      [] OTHER -> a

\* the str returned by json.dumps, as the text of an element
JsonText(a) == [x |-> "json", ast |-> a]

\* ------------------------------------------------- ElementTree.fromstring
BytesRaw(bs) == [kind |-> "raw", bytes |-> bs]
BytesXml(decl, enc, root) == [kind |-> "xml", decl |-> decl, enc |-> enc, root |-> root]
BytesJson(a) == [kind |-> "json", ast |-> a]

TextHasNonAscii(text) ==
    /\ text.x = "toks"
    /\ \E i \in 1..Len(text.toks) : ~IsAsciiTok(text.toks[i])

RECURSIVE HasNonAscii(_)
HasNonAscii(e) ==
    \/ TextHasNonAscii(e.text)
    \/ \E i \in 1..Len(e.kids) : HasNonAscii(e.kids[i])

RECURSIVE WellFormed(_)
WellFormed(e) ==
    /\ e.text.x = "toks" => \A i \in 1..Len(e.text.toks) : ~BadXmlTok(e.text.toks[i])
    /\ \A i \in 1..Len(e.kids) : WellFormed(e.kids[i])

ParseText(text, decl, enc) ==
    CASE text.x = "none" -> NoText
      [] text.x = "json" -> JsonText(MapJsonStrings(XmlUnescapeTok, text.ast))
      [] text.x = "toks" ->
           IF text.toks = <<>> THEN NoText
           ELSE Toks(Flatten([i \in 1..Len(NormalizeEol(text.toks)) |->
                    DecodeXmlTok(XmlUnescapeTok(NormalizeEol(text.toks)[i]), decl, enc)]))

\* namespace declarations are not attributes of the parsed element
XmlnsAttrs == {"xmlns", "xmlns:tns", "xmlns:soap", "xmlns:xsd"}

RECURSIVE ParseElem(_, _, _)
ParseElem(e, decl, enc) ==
    Elem(e.ns, e.local, SelectSeq(e.attrib, LAMBDA a : a[1] \notin XmlnsAttrs),
         ParseText(e.text, decl, enc),
         [i \in 1..Len(e.kids) |-> ParseElem(e.kids[i], decl, enc)])

PyElement(e) == [t |-> "element", el |-> e]

fromstring(data) ==
    CASE data.kind = "raw" -> RaiseMsg("ParseError", "not well-formed")
      [] data.kind = "json" -> RaiseMsg("ParseError", "not well-formed")
      [] data.kind = "xml" ->
           IF data.decl = "unknown"
           THEN RaiseMsg("LookupError", "unknown encoding")
           ELSE IF data.enc = "latin-1" /\ data.decl # "ISO-8859-1" /\ HasNonAscii(data.root)
           THEN RaiseMsg("ParseError", "not well-formed (invalid token)")
           ELSE IF ~WellFormed(data.root)
           THEN RaiseMsg("ParseError", "not well-formed (invalid token)")
           ELSE PyElement(ParseElem(data.root, data.decl, data.enc))

\* ElementTree.tostring(..., xml_declaration=True, encoding="UTF-8")
SerializeText(text) ==
    CASE text.x = "none" -> NoText
      [] text.x = "json" -> JsonText(MapJsonStrings(XmlEscapeTok, text.ast))
      [] text.x = "toks" -> Toks(SeqMap(XmlEscapeTok, text.toks))

RECURSIVE SerializeElem(_)
SerializeElem(e) ==
    Elem(e.ns, e.local, e.attrib, SerializeText(e.text),
         [i \in 1..Len(e.kids) |-> SerializeElem(e.kids[i])])

tostring(e) == BytesXml("UTF-8", "utf-8", SerializeElem(e))

\* the descendants of e in document order (e itself excluded)
RECURSIVE Descendants(_)
Descendants(e) ==
    Flatten([i \in 1..Len(e.kids) |-> <<e.kids[i]>> \o Descendants(e.kids[i])])

IsTag(e, ns, local) == e.ns = ns /\ e.local = local

\* ------------------------------------------------------------- SOAP codec
TextOrEmpty_none(text) ==
    IF text.x = "none" THEN PyNone ELSE PyStr(text.toks)

\* echo_request_el.text or ""
TextOrEmpty(text) ==
    IF text.x = "none" THEN PyStr(<<>>) ELSE PyStr(text.toks)

find_local(e, tag) == SelectSeq(e.kids, LAMBDA k : k.local = tag)

\* Element.find(tag) with a tag that has no {namespace} part: the direct
\* children whose tag is exactly that name (the first one is the result)
find(e, tag) == SelectSeq(e.kids, LAMBDA k : IsTag(k, "", tag))

parse_soap_echo_request(xml_data) ==
    LET doc == fromstring(xml_data) IN
    IF IsRaise(doc) THEN doc
    ELSE LET bodies == SelectSeq(Descendants(doc.el),
                                 LAMBDA e : IsTag(e, SOAP_ENVELOPE, "Body")) IN
         IF bodies = <<>> \/ Len(bodies[1].kids) = 0
         THEN RaiseMsg("ValueError", "Empty SOAP Body")
         ELSE LET found == find(bodies[1], "EchoRequest") IN
              IF found = <<>>
              THEN RaiseMsg("ValueError", "Missing EchoRequest element")
              ELSE TextOrEmpty(found[1].text)

\* the text a Python value gives an element
TextOf(v) ==
    CASE v.t = "none" -> NoText
      [] v.t = "str" -> Toks(v.s)
      [] v.t = "jsontext" -> JsonText(v.jt)

PyJsonText(a) == [t |-> "jsontext", jt |-> a]

make_response_body_qualified(response) ==
    tostring(Elem(SOAP_ENVELOPE, "Envelope",
                  <<<<"soap", SOAP_ENVELOPE>>, <<"tns", SOAP_TNS>>>>, NoText,
                  <<Elem(SOAP_ENVELOPE, "Body", <<>>, NoText,
                         <<Elem(SOAP_TNS, "EchoResponse", <<>>, TextOf(response), <<>>)>>)>>))

make_response_body(response) ==
    tostring(Elem(SOAP_ENVELOPE, "Envelope",
                  <<<<"soap", SOAP_ENVELOPE>>, <<"tns", SOAP_TNS>>>>, NoText,
                  <<Elem(SOAP_ENVELOPE, "Body", <<>>, NoText,
                         <<Elem("", "EchoResponse", <<>>, TextOf(response), <<>>)>>)>>))

make_fault_response_body(code, message) ==
    tostring(Elem(SOAP_ENVELOPE, "Envelope", <<<<"soap", SOAP_ENVELOPE>>>>, NoText,
                  <<Elem(SOAP_ENVELOPE, "Body", <<>>, NoText,
                         <<Elem(SOAP_TNS, "Fault", <<>>, NoText,
                                <<Elem("", "faultcode", <<>>, Toks(code), <<>>),
                                  Elem("", "faultstring", <<>>, Toks(message), <<>>)>>)>>)>>))

\* ---------------------------------------------------------- configuration
SOAP_WSDL == "http://schemas.xmlsoap.org/wsdl/"
SOAP_NS == "http://schemas.xmlsoap.org/wsdl/soap/"
SOAP_XSD == "http://www.w3.org/2001/XMLSchema"

\* class Config, for the HOST and PORT found in the environment
Config(host, port) ==
    [SERVICE_ADDRESS |-> "http://" \o host \o ":" \o port,
     SOAP_NSMAP |-> [wsdl |-> SOAP_WSDL, soap |-> SOAP_NS, xsd |-> SOAP_XSD,
                     tns |-> "http://" \o host \o ":" \o port \o "/echo/soap",
                     env |-> SOAP_ENVELOPE]]

\* the configuration without HOST and PORT in the environment
DefaultConfig == Config("0.0.0.0", "5080")

\* --------------------------------------------------------- WSDL generator
\* an element with the tag _qname(prefix, name)
_qname(cfg, prefix, name, attrib, kids) ==
    Elem(cfg.SOAP_NSMAP[prefix], name, attrib, NoText, kids)

_add_message(cfg, name, params) ==
    _qname(cfg, "wsdl", "message", <<<<"name", name>>>>,
           [i \in 1..Len(params) |->
               _qname(cfg, "wsdl", "part",
                      <<<<"name", params[i][1]>>, <<"type", "xsd:" \o params[i][2]>>>>, <<>>)])

_add_operation_swapped(cfg, op_name, in_msg, out_msg) ==
    _qname(cfg, "wsdl", "operation", <<<<"name", op_name>>>>,
           <<_qname(cfg, "wsdl", "input", <<<<"message", "tns:" \o out_msg>>>>, <<>>),
             _qname(cfg, "wsdl", "output", <<<<"message", "tns:" \o in_msg>>>>, <<>>)>>)

_add_operation(cfg, op_name, in_msg, out_msg) ==
    _qname(cfg, "wsdl", "operation", <<<<"name", op_name>>>>,
           <<_qname(cfg, "wsdl", "input", <<<<"message", "tns:" \o in_msg>>>>, <<>>),
             _qname(cfg, "wsdl", "output", <<<<"message", "tns:" \o out_msg>>>>, <<>>)>>)

_bind_operation(cfg, op_name, soap_action) ==
    _qname(cfg, "wsdl", "operation", <<<<"name", op_name>>>>,
           <<_qname(cfg, "soap", "operation", <<<<"soapAction", soap_action>>>>, <<>>),
             _qname(cfg, "wsdl", "input", <<>>,
                    <<_qname(cfg, "soap", "body", <<<<"use", "literal">>>>, <<>>)>>),
             _qname(cfg, "wsdl", "output", <<>>,
                    <<_qname(cfg, "soap", "body", <<<<"use", "literal">>>>, <<>>)>>)>>)

\* ElementTree.tostring(..., encoding="utf-8"): no XML declaration is written
tostring_utf8(e) == BytesXml("none", "utf-8", SerializeElem(e))

make_wsdl(cfg) ==
    tostring_utf8(
        _qname(cfg, "wsdl", "definitions",
               <<<<"targetNamespace", cfg.SOAP_NSMAP["tns"]>>,
                 <<"xmlns:tns", cfg.SOAP_NSMAP["tns"]>>,
                 <<"xmlns:soap", cfg.SOAP_NSMAP["soap"]>>,
                 <<"xmlns:xsd", cfg.SOAP_NSMAP["xsd"]>>,
                 <<"xmlns", cfg.SOAP_NSMAP["wsdl"]>>>>,
               <<_qname(cfg, "wsdl", "types", <<>>, <<>>),
                 _add_message(cfg, "EchoRequest", <<<<"EchoRequest", "string">>>>),
                 _add_message(cfg, "EchoResponse", <<<<"EchoResponse", "string">>>>),
                 _qname(cfg, "wsdl", "portType", <<<<"name", "EchoPortType">>>>,
                        <<_add_operation(cfg, "Echo", "EchoRequest", "EchoResponse")>>),
                 _qname(cfg, "wsdl", "binding",
                        <<<<"name", "EchoBinding">>, <<"type", "tns:EchoPortType">>>>,
                        <<_qname(cfg, "soap", "binding",
                                 <<<<"transport", "http://schemas.xmlsoap.org/soap/http">>,
                                   <<"style", "document">>>>, <<>>),
                          _bind_operation(cfg, "Echo", cfg.SERVICE_ADDRESS \o "/echo/soap")>>),
                 _qname(cfg, "wsdl", "service", <<<<"name", "EchoService">>>>,
                        <<_qname(cfg, "wsdl", "port",
                                 <<<<"name", "EchoPort">>, <<"binding", "tns:EchoBinding">>>>,
                                 <<_qname(cfg, "soap", "address",
                                          <<<<"location", cfg.SERVICE_ADDRESS \o "/echo/soap">>>>,
                                          <<>>)>>)>>)>>))

\* ------------------------------------------------------------- normalizer
decode_utf8_replace(data) ==
    CASE data.kind = "raw" ->
           IF IsRaise(Utf8DecodeBytes(data.bytes)) THEN PyStr(<<"U+FFFD">>)
           ELSE Utf8DecodeBytes(data.bytes)
      [] OTHER -> PyStrOf(data)

\* bytes.decode("utf-8") applied to a request body
decode_utf8(data) ==
    CASE data.kind = "raw" -> Utf8DecodeBytes(data.bytes)
      [] data.kind = "xml" ->
           IF data.enc = "latin-1" /\ HasNonAscii(data.root)
           THEN Raise("UnicodeDecodeError")
           ELSE PyStrOf(data)
      [] data.kind = "json" -> PyStrOf(data)

EscapeTok_noquote(c) ==
    CASE c = "&" -> "&amp;"
      [] c = "<" -> "&lt;"
      [] c = ">" -> "&gt;"
      [] OTHER -> c

\* markupsafe.escape
EscapeTok(c) ==
    CASE c = "&" -> "&amp;"
      [] c = "<" -> "&lt;"
      [] c = ">" -> "&gt;"
      [] c = "'" -> "&#39;"
      [] c = "\"" -> "&#34;"
      [] OTHER -> c

escape(v) ==
    IF v.t = "none" THEN PyMarkup(<<"None">>) ELSE PyMarkup(SeqMap(EscapeTok, v.s))

EnvironGet_empty(environ, k) == IF k \in DOMAIN environ THEN environ[k] ELSE PyStr(<<>>)

\* req.environ.get(k)
EnvironGet(environ, k) == IF k \in DOMAIN environ THEN environ[k] ELSE PyNone

\* req.headers[h]: the value of the first header instance named h
HeaderGet(headers, h) ==
    headers[CHOOSE i \in 1..Len(headers) :
                /\ headers[i].name = h
                /\ \A k \in 1..(i - 1) : headers[k].name # h].value

FormOrBody_raw(form, decoded) == decoded

\* if req.form: body = [(k, v) for k, v in req.form.items()]
FormOrBody(form, decoded) ==
    IF form # <<>>
    THEN PyList([i \in 1..Len(form) |->
             PyTuple(<<PyStr(<<form[i].key>>), PyStr(form[i].value)>>)])
    ELSE decoded

\* the dict literal echo returns
EchoDocument(r, req_param, op_res, body) ==
    PyDict([
        client |-> PyDict([
            host |-> r.remote_addr,
            port |-> EnvironGet(r.environ, "REMOTE_PORT")]),
        request |-> PyDict([
            http |-> PyDict([
                method |-> PyStr(<<r.method>>),
                path |-> PyStr(r.path),
                protocol |-> EnvironGet(r.environ, "SERVER_PROTOCOL")]),
            params |-> escape(req_param),
            query_param |-> PyDict(r.args),
            headers |-> PyList([i \in 1..Len(r.headers) |->
                PyDict([h \in {r.headers[i].name} |->
                           PyStr(HeaderGet(r.headers, h))])]),
            body |-> body]),
        op_result |-> op_res])

echo_sparse(r, req_param, op_res) ==
    LET decoded == decode_utf8(r.data) IN
    IF IsRaise(decoded) THEN decoded
    ELSE LET doc == EchoDocument(r, req_param, op_res, FormOrBody(r.form, decoded)) IN
         IF doc.d["client"].d["port"] = PyNone
         THEN PyDict([doc.d EXCEPT !["client"] = PyDict([host |-> r.remote_addr])])
         ELSE doc

echo(r, req_param, op_res) ==
    LET decoded == decode_utf8(r.data) IN
    IF IsRaise(decoded) THEN decoded
    ELSE EchoDocument(r, req_param, op_res, FormOrBody(r.form, decoded))

\* --------------------------------------------------------- JSON-RPC codec
\* json.loads applied to a decoded body
json_loads_text(s) ==
    IF s.t = "strof" /\ s.doc.kind = "json"
    THEN json_loads(s.doc.ast)
    ELSE Raise("JSONDecodeError")

\* float.is_integer() on the floats of the model ("1.0", "1.5", "2.0")
IsIntegralFloat(f) == f \in {"1.0", "2.0"}

\* jsonschema draft-07 types
IsJsonString(v) == v.t = "str"
IsJsonNumber(v) == v.t \in {"int", "float"}
IsJsonInteger_bool(v) == v.t \in {"int", "bool"} \/ (v.t = "float" /\ IsIntegralFloat(v.f))

\* draft-07 "integer": an int that is not a bool, or a float without fraction
IsJsonInteger(v) == v.t = "int" \/ (v.t = "float" /\ IsIntegralFloat(v.f))
IsJsonBoolean(v) == v.t = "bool"
IsJsonNull(v) == v.t = "none"
IsJsonObject(v) == v.t = "dict"
IsJsonArray(v) == v.t = "list"

AnyJsonType(v) ==
    \/ IsJsonString(v) \/ IsJsonNumber(v) \/ IsJsonBoolean(v)
    \/ IsJsonNull(v) \/ IsJsonObject(v) \/ IsJsonArray(v)

ParamItemValid(v) ==
    \/ IsJsonArray(v) /\ \A i \in 1..Len(v.l) : AnyJsonType(v.l[i])
    \/ IsJsonObject(v) /\ \A k \in DOMAIN v.d : AnyJsonType(v.d[k])
    \/ IsJsonString(v) \/ IsJsonNumber(v) \/ IsJsonBoolean(v) \/ IsJsonNull(v)

RpcKeys == {"jsonrpc", "method", "params", "id"}

_json_rpc_schema_additional(v) ==
    /\ IsJsonObject(v)
    /\ RpcKeys \subseteq DOMAIN v.d
    /\ IsJsonString(v.d["jsonrpc"]) /\ v.d["jsonrpc"].s = <<"2.0">>
    /\ IsJsonString(v.d["method"]) /\ Len(v.d["method"].s) >= 1
    /\ IsJsonArray(v.d["params"])
    /\ \A i \in 1..Len(v.d["params"].l) : ParamItemValid(v.d["params"].l[i])
    /\ \/ IsJsonInteger(v.d["id"]) \/ IsJsonString(v.d["id"]) \/ IsJsonNull(v.d["id"])

_json_rpc_schema(v) ==
    /\ IsJsonObject(v)
    /\ RpcKeys \subseteq DOMAIN v.d
    /\ DOMAIN v.d \subseteq RpcKeys
    /\ IsJsonString(v.d["jsonrpc"]) /\ v.d["jsonrpc"].s = <<"2.0">>
    /\ IsJsonString(v.d["method"]) /\ Len(v.d["method"].s) >= 1
    /\ IsJsonArray(v.d["params"])
    /\ \A i \in 1..Len(v.d["params"].l) : ParamItemValid(v.d["params"].l[i])
    /\ \/ IsJsonInteger(v.d["id"]) \/ IsJsonString(v.d["id"]) \/ IsJsonNull(v.d["id"])

parse_rpc_echo_request(rbody) ==
    LET text == decode_utf8(rbody) IN
    IF IsRaise(text) THEN text
    ELSE LET req_body == json_loads_text(text) IN
         IF IsRaise(req_body) THEN req_body
         ELSE IF ~_json_rpc_schema(req_body) THEN Raise("ValidationError")
         ELSE req_body

\* ---------------------------------------------------------------- routes
Response(status, content_type, body) ==
    [t |-> "response", status |-> status, content_type |-> content_type, body |-> body]

\* exception classes and the classes an except clause for them catches
IsInstance(exc, cls) ==
    \/ exc = cls
    \/ cls = "ValueError" /\ exc \in {"UnicodeDecodeError", "JSONDecodeError"}
    \/ cls = "LookupError" /\ exc = "KeyError"
    \/ cls = "SyntaxError" /\ exc = "ParseError"

UnicodeErrorResponse_400 ==
    Response(400, "application/json",
             BytesJson(json_dumps(PyDict([error |-> PyStr(<<"Request must be valid Unicode">>)]))))

UnicodeErrorResponse ==
    Response(500, "application/json",
             BytesJson(json_dumps(PyDict([error |-> PyStr(<<"Request must be valid Unicode">>)]))))

rest_body_noopres(r, param) ==
    LET body == echo(r, param, PyNone) IN
    IF IsRaise(body)
    THEN IF IsInstance(body.exc, "UnicodeDecodeError") THEN UnicodeErrorResponse ELSE body
    ELSE Response(200, "application/json", BytesJson(json_dumps(body)))

\* the body shared by rest and rest_param
rest_body(r, param) ==
    LET op_res == decode_utf8(r.data) IN
    IF IsRaise(op_res)
    THEN IF IsInstance(op_res.exc, "UnicodeDecodeError") THEN UnicodeErrorResponse ELSE op_res
    ELSE LET body == echo(r, param, op_res) IN
         IF IsRaise(body)
         THEN IF IsInstance(body.exc, "UnicodeDecodeError") THEN UnicodeErrorResponse ELSE body
         ELSE Response(200, "application/json", BytesJson(json_dumps(body)))

rest(r) == rest_body(r, PyNone)

\* werkzeug's get_content_type: the media types that get a charset parameter
CharsetMimetypes == {"application/xml", "application/javascript", "application/sql"}

get_content_type(mimetype) ==
    IF mimetype \in CharsetMimetypes THEN mimetype \o "; charset=utf-8" ELSE mimetype

\* flask.abort(404)
Abort404 == RaiseMsg("NotFound", "404")

\* the application's handler of 404 errors
handle_404 ==
    Response(404, "application/json",
             BytesJson(json_dumps(PyDict([error |-> PyStr(<<"Not Found">>)]))))

wsdl_truthy(r) ==
    IF "wsdl" \in DOMAIN r.args /\ r.args["wsdl"] # PyStr(<<>>)
    THEN Response(200, get_content_type("application/xml"), make_wsdl(DefaultConfig))
    ELSE Abort404

wsdl(r) ==
    IF "wsdl" \in DOMAIN r.args
    THEN Response(200, get_content_type("application/xml"), make_wsdl(DefaultConfig))
    ELSE Abort404

rest_param(r, param) == rest_body(r, param)

echo_soap(r) ==
    LET request_string == parse_soap_echo_request(r.data) IN
    IF IsRaise(request_string)
    THEN IF IsInstance(request_string.exc, "ParseError")
         THEN Response(500, "application/xml",
                       make_fault_response_body(<<"Client">>, <<"Malformed request data">>))
         ELSE IF IsInstance(request_string.exc, "ValueError")
         THEN Response(500, "application/xml",
                       make_fault_response_body(<<"Client">>, <<request_string.msg>>))
         ELSE request_string
    ELSE LET response_string == echo(r, PyNone, request_string) IN
         IF IsRaise(response_string) THEN response_string
         ELSE Response(200, "application/xml; charset=utf-8",
                       make_response_body(PyJsonText(json_dumps(response_string))))

_registered_functions == {<<"echo">>}

RpcError_nested(code, message, id) ==
    PyDict([jsonrpc |-> PyStr(<<"2.0">>),
            error |-> PyDict([code |-> PyInt(code), message |-> PyStr(<<message>>),
                              id |-> id])])

RpcError(code, message, id) ==
    PyDict([jsonrpc |-> PyStr(<<"2.0">>),
            error |-> PyDict([code |-> PyInt(code), message |-> PyStr(<<message>>)]),
            id |-> id])

RpcResult_suppress(result, id) ==
    PyDict([jsonrpc |-> PyStr(<<"2.0">>),
            result |-> IF id.t = "none" THEN PyNone ELSE result,
            id |-> id])

RpcResult(result, id) ==
    PyDict([jsonrpc |-> PyStr(<<"2.0">>), result |-> result, id |-> id])

\* the body built by the ValueError clause: the id is put inside the error
\* object and the response has no id of its own
RpcInvalidRequest(id) ==
    PyDict([jsonrpc |-> PyStr(<<"2.0">>),
            error |-> PyDict([code |-> PyInt(-32600),
                              message |-> PyStr(<<"Invalid request">>),
                              id |-> id])])

RpcResponse(resp_body, status) ==
    Response(status, "application/json", BytesJson(json_dumps(resp_body)))

\* req_body.get("id") in an except clause: req_body is unbound when
\* parse_rpc_echo_request raised
DictGet_none(d, k) == PyNone

DictGet(d, k) == IF k \in DOMAIN d.d THEN d.d[k] ELSE PyNone

\* the except clauses of rpc_endpoint, for the exception raised in its try
\* block; req_body is a dict once parse_rpc_echo_request has returned
RpcExcept(raised, req_body) ==
    IF \E cls \in {"JSONDecodeError", "ValidationError", "UnicodeDecodeError"} :
           IsInstance(raised.exc, cls)
    THEN RpcResponse(RpcError(-32700, "Parse error", PyNone), 400)
    ELSE IF IsInstance(raised.exc, "KeyError")
    THEN IF req_body.t # "dict" THEN Raise("UnboundLocalError")
         ELSE RpcResponse(RpcError(-32601, "Method not found", DictGet(req_body, "id")), 200)
    ELSE IF IsInstance(raised.exc, "ValueError")
    THEN IF req_body.t # "dict" THEN Raise("UnboundLocalError")
         ELSE RpcResponse(RpcInvalidRequest(DictGet(req_body, "id")), 200)
    ELSE raised

InvokeRegistered_params(r, req_body) == echo(r, PyNone, req_body.d["params"])

\* _registered_functions[req_body["method"]](request, op_res=req_body), the
\* one registered function being echo
InvokeRegistered(r, req_body) == echo(r, PyNone, req_body)

rpc_endpoint(r) ==
    LET req_body == parse_rpc_echo_request(r.data)
        resp_msg ==
            IF IsRaise(req_body) THEN req_body
            ELSE IF req_body.d["method"].s \notin _registered_functions
            THEN Raise("KeyError")
            ELSE InvokeRegistered(r, req_body)
    IN  IF ~IsRaise(resp_msg)
        THEN RpcResponse(RpcResult(resp_msg, req_body.d["id"]), 200)
        ELSE RpcExcept(resp_msg, req_body)

\* -------------------------------------------------------- inbound requests
RECURSIVE SeqsUpTo(_, _)
SeqsUpTo(S, n) ==
    IF n = 0 THEN {<<>>}
    ELSE LET shorter == SeqsUpTo(S, n - 1) IN
         shorter \cup {Append(s, c) : s \in shorter, c \in S}

RawBodies == {BytesRaw(bs) : bs \in SeqsUpTo(ByteAlphabet, MaxBytes)}

\* (declared encoding, encoding the bytes are written in)
XmlEncodings ==
    {<<"none", "utf-8">>, <<"UTF-8", "utf-8">>, <<"ISO-8859-1", "latin-1">>,
     <<"none", "latin-1">>, <<"ISO-8859-1", "utf-8">>, <<"unknown", "utf-8">>}

\* character data as written in a request document
SoapTexts ==
    {<<>>, <<"Hi">>, <<" ", "a", " ">>, <<"U+00E9">>, <<"&lt;", "&amp;">>,
     <<"a", "<">>, <<"\r", "\n">>}

E(ns, local, text, kids) == Elem(ns, local, <<>>, text, kids)

Envelope(kids) == E(SOAP_ENVELOPE, "Envelope", NoText, kids)

SoapShapes(x) ==
    { \* Envelope > Body > EchoRequest
      Envelope(<<E(SOAP_ENVELOPE, "Body", NoText, <<E("", "EchoRequest", Toks(x), <<>>)>>)>>),
      \* EchoRequest qualified with the target namespace
      Envelope(<<E(SOAP_ENVELOPE, "Body", NoText, <<E(SOAP_TNS, "EchoRequest", Toks(x), <<>>)>>)>>),
      \* EchoRequest under a default namespace (that of the envelope)
      Envelope(<<E(SOAP_ENVELOPE, "Body", NoText,
                   <<E(SOAP_ENVELOPE, "EchoRequest", Toks(x), <<>>)>>)>>),
      \* tns:Echo wrapping a request element
      Envelope(<<E(SOAP_ENVELOPE, "Body", NoText,
                   <<E(SOAP_TNS, "Echo", NoText, <<E("", "request", Toks(x), <<>>)>>)>>)>>),
      \* EchoRequest nested below another child of Body
      Envelope(<<E(SOAP_ENVELOPE, "Body", NoText,
                   <<E(SOAP_TNS, "Echo", NoText, <<E("", "EchoRequest", Toks(x), <<>>)>>)>>)>>),
      \* another element before EchoRequest
      Envelope(<<E(SOAP_ENVELOPE, "Body", NoText,
                   <<E(SOAP_TNS, "ExtraElement", NoText, <<>>),
                     E("", "EchoRequest", Toks(x), <<>>)>>)>>),
      \* a Header before the Body
      Envelope(<<E(SOAP_ENVELOPE, "Header", Toks(x), <<>>),
                 E(SOAP_ENVELOPE, "Body", NoText, <<E("", "EchoRequest", Toks(x), <<>>)>>)>>),
      \* childless Body (character data only)
      Envelope(<<E(SOAP_ENVELOPE, "Body", Toks(x), <<>>)>>),
      \* no Body
      Envelope(<<E(SOAP_ENVELOPE, "Header", Toks(x), <<>>)>>),
      \* Body outside the envelope namespace
      Envelope(<<E("", "Body", NoText, <<E("", "EchoRequest", Toks(x), <<>>)>>)>>),
      \* the document element is the Body itself
      E(SOAP_ENVELOPE, "Body", NoText, <<E("", "EchoRequest", Toks(x), <<>>)>>) }

SoapBodies ==
    UNION {{BytesXml(de[1], de[2], root) : root \in SoapShapes(x)} :
               de \in XmlEncodings, x \in SoapTexts}

JAbsent == [j |-> "absent"]

JsonRpcVersions == {JAbsent, JString(<<"2.0">>), JString(<<"1.0">>), JFloat("2.0")}
JsonRpcMethods == {JAbsent, JString(<<"echo">>), JString(<<"nope">>), JString(<<>>), JInt(1)}
JsonRpcParams ==
    {JAbsent, JArray(<<>>), JString(<<"a">>), JObject([k |-> JInt(1)]),
     JArray(<<JInt(1), JFloat("1.5"), JBool(TRUE), JNull>>),
     JArray(<<JString(<<"a", "\\n">>), JArray(<<JInt(1)>>), JObject([k |-> JNull])>>)}
JsonRpcIds ==
    {JAbsent, JInt(1), JString(<<"abc">>), JNull, JFloat("1.5"), JFloat("1.0"), JBool(TRUE)}
JsonRpcExtras == {JAbsent, JInt(1)}

JsonRpcObject(jv, mv, pv, iv, ev) ==
    LET full == [jsonrpc |-> jv, method |-> mv, params |-> pv, id |-> iv, extra |-> ev]
        keys == {k \in DOMAIN full : full[k].j # "absent"}
    IN  JObject([k \in keys |-> full[k]])

JsonBodies ==
    {BytesJson(JsonRpcObject(jv, mv, pv, iv, ev)) :
        jv \in JsonRpcVersions, mv \in JsonRpcMethods, pv \in JsonRpcParams,
        iv \in JsonRpcIds, ev \in JsonRpcExtras}
    \cup {BytesJson(JInt(1)), BytesJson(JNull), BytesJson(JArray(<<>>)),
          BytesJson(JString(<<"echo">>))}

SampleXmlBodies ==
    {BytesXml(de[1], de[2],
              Envelope(<<E(SOAP_ENVELOPE, "Body", NoText,
                           <<E("", "EchoRequest", Toks(<<"U+00E9">>), <<>>)>>)>>)) :
        de \in XmlEncodings}

SampleJsonBodies ==
    {BytesJson(JsonRpcObject(JString(<<"2.0">>), JString(<<m>>), JArray(<<>>), JInt(1), JAbsent)) :
        m \in {"echo", "nope"}}

RestBodies == RawBodies \cup SampleXmlBodies \cup SampleJsonBodies
SoapRequestBodies == RawBodies \cup SoapBodies \cup SampleJsonBodies
RpcBodies == RawBodies \cup JsonBodies \cup SampleXmlBodies

Forms ==
    {<<>>, <<[key |-> "name", value |-> <<"a">>]>>,
     <<[key |-> "b", value |-> <<"<">>], [key |-> "a", value |-> <<>>]>>}

NoArgs == [k \in {} |-> PyNone]
ArgSets ==
    {NoArgs, [k \in {"wsdl"} |-> PyStr(<<>>)], [k \in {"q", "p"} |-> PyStr(<<"a">>)],
     [k \in {"wsdl", "q"} |-> PyStr(<<"0">>)], [k \in {"WSDL"} |-> PyStr(<<"1">>)]}

HeaderLists ==
    {<<>>, <<[name |-> "Host", value |-> <<"a">>]>>,
     <<[name |-> "X-A", value |-> <<"1">>], [name |-> "Host", value |-> <<"a">>],
       [name |-> "X-A", value |-> <<"2">>]>>}

RemoteAddrs == {PyNone, PyStr(<<"127.0.0.1">>)}

Environs ==
    {[k \in ks |-> PyStr(<<CASE k = "REMOTE_PORT" -> "5000" [] OTHER -> "HTTP/1.1">>)] :
        ks \in SUBSET {"REMOTE_PORT", "SERVER_PROTOCOL"}}

BaseContext ==
    [form |-> <<>>, args |-> NoArgs,
     headers |-> <<[name |-> "Host", value |-> <<"a">>]>>,
     remote_addr |-> PyStr(<<"127.0.0.1">>),
     environ |-> [k \in {"REMOTE_PORT", "SERVER_PROTOCOL"} |->
                     PyStr(<<CASE k = "REMOTE_PORT" -> "5000" [] OTHER -> "HTTP/1.1">>)]]

\* the base context and every context differing from it in one component
Contexts ==
    {[BaseContext EXCEPT !.form = f] : f \in Forms}
    \cup {[BaseContext EXCEPT !.args = a] : a \in ArgSets}
    \cup {[BaseContext EXCEPT !.headers = h] : h \in HeaderLists}
    \cup {[BaseContext EXCEPT !.remote_addr = a] : a \in RemoteAddrs}
    \cup {[BaseContext EXCEPT !.environ = e] : e \in Environs}

RestMethods == {"GET", "POST", "PUT", "PATCH", "DELETE"}

PathParams == {<<"a">>, <<"<", "&">>}

Request(method, path, view_args, data, ctx) ==
    [method |-> method, path |-> path, view_args |-> view_args, data |-> data,
     form |-> ctx.form, args |-> ctx.args, headers |-> ctx.headers,
     remote_addr |-> ctx.remote_addr, environ |-> ctx.environ]

\* the requests the router hands to each view function
Inbound(view) ==
    CASE view = "rest" ->
           {Request(m, <<"/echo/rest">>, PyNone, d, c) :
               m \in RestMethods, d \in RestBodies, c \in Contexts}
      [] view = "rest_param" ->
           {Request(m, <<"/echo/rest/">> \o p, PyStr(p), d, c) :
               m \in RestMethods, d \in RestBodies, c \in Contexts, p \in PathParams}
      [] view = "echo_soap" ->
           {Request("POST", <<"/echo/soap">>, PyNone, d, c) :
               d \in SoapRequestBodies, c \in Contexts}
      [] view = "rpc_endpoint" ->
           {Request("POST", <<"/echo/rpc">>, PyNone, d, c) :
               d \in RpcBodies, c \in Contexts}
      [] view = "wsdl" ->
           {Request("GET", <<"/echo/soap">>, PyNone, d, c) :
               d \in SampleXmlBodies \cup {BytesRaw(<<>>)}, c \in Contexts}

Views == {"rest", "rest_param", "echo_soap", "rpc_endpoint", "wsdl"}

\* ------------------------------------------------------------ transitions
Init ==
    /\ pc = "idle"
    /\ route = "none"
    /\ req = PyNone
    /\ resp = PyNone

\* a request arrives and is routed to its view function
log_request_start ==
    /\ pc = "idle"
    /\ \E view \in Views : \E r \in Inbound(view) :
          /\ route' = view
          /\ req' = r
    /\ resp' = PyNone
    /\ pc' = "view"

Rest ==
    /\ pc = "view" /\ route = "rest"
    /\ resp' = rest(req)
    /\ pc' = "after"
    /\ UNCHANGED <<route, req>>

RestParam ==
    /\ pc = "view" /\ route = "rest_param"
    /\ resp' = rest_param(req, req.view_args)
    /\ pc' = "after"
    /\ UNCHANGED <<route, req>>

EchoSoap ==
    /\ pc = "view" /\ route = "echo_soap"
    /\ resp' = echo_soap(req)
    /\ pc' = "after"
    /\ UNCHANGED <<route, req>>

\* the wsdl view; a NotFound it raises goes to the handler of 404 errors
Wsdl ==
    /\ pc = "view" /\ route = "wsdl"
    /\ resp' = IF wsdl(req) = Abort404 THEN handle_404 ELSE wsdl(req)
    /\ pc' = "after"
    /\ UNCHANGED <<route, req>>

RpcEndpoint ==
    /\ pc = "view" /\ route = "rpc_endpoint"
    /\ resp' = rpc_endpoint(req)
    /\ pc' = "after"
    /\ UNCHANGED <<route, req>>

\* the response (or the escaped exception) leaves the application
log_request_response ==
    /\ pc = "after"
    /\ pc' = "idle"
    /\ route' = "none"
    /\ req' = PyNone
    /\ resp' = PyNone

\* the request envelope Envelope > Body > EchoRequest[text] as the unit tests
\* build it: an element tree written out by ElementTree.tostring
create_soap_envelope(text) ==
    tostring(Elem(SOAP_ENVELOPE, "Envelope",
                  <<<<"xmlns:soap", SOAP_ENVELOPE>>, <<"xmlns:tns", SOAP_TNS>>>>, NoText,
                  <<Elem(SOAP_ENVELOPE, "Body", <<>>, NoText,
                         <<Elem("", "EchoRequest", <<>>, text, <<>>)>>)>>))

\* the texts given to the EchoRequest element: None or a str
RequestTexts == {NoText} \cup {Toks(x) : x \in SeqsUpTo(Chars, MaxText)}

\* parse_soap_echo_request applied to a constructed request envelope
ParseEchoRequest ==
    /\ pc = "idle"
    /\ \E text \in RequestTexts :
          /\ req' = [text |-> text, xml_data |-> create_soap_envelope(text)]
          /\ resp' = parse_soap_echo_request(create_soap_envelope(text))
    /\ route' = "parse_soap_echo_request"
    /\ pc' = "parsed"

\* parse_soap_echo_request applied to a request document as a client wrote it
ParseSoapDocument ==
    /\ pc = "idle"
    /\ \E de \in XmlEncodings, x \in SoapTexts : \E root \in SoapShapes(x) :
          /\ req' = [text |-> Toks(x), xml_data |-> BytesXml(de[1], de[2], root)]
          /\ resp' = parse_soap_echo_request(BytesXml(de[1], de[2], root))
    /\ route' = "parse_soap_echo_request"
    /\ pc' = "parsed_doc"

\* the arguments the unit tests call echo with: a request, an optional path
\* parameter and an optional operation result
ReqParams == {PyNone} \cup {PyStr(p) : p \in SeqsUpTo(Chars, MaxText)}

OpResults == {PyNone, PyStr(<<>>), PyStr(<<"Hi">>)}

EchoCalls ==
    {[r |-> Request("POST", <<"/echo">>, PyNone, d, c), req_param |-> PyNone, op_res |-> PyNone] :
        d \in RestBodies, c \in Contexts}
    \cup {[r |-> Request("POST", <<"/echo">>, PyNone, d,
                          [BaseContext EXCEPT !.form = f, !.headers = h]),
            req_param |-> PyNone, op_res |-> PyNone] :
              d \in RawBodies, f \in Forms, h \in HeaderLists}
    \cup {[r |-> Request(m, p, PyNone, BytesRaw(<<97>>), BaseContext),
            req_param |-> q, op_res |-> o] :
              m \in RestMethods, p \in {<<"/">>, <<"/echo/rest/">>},
              q \in ReqParams, o \in OpResults}

\* echo applied to a request object
Echo ==
    /\ pc = "idle"
    /\ \E call \in EchoCalls :
          /\ req' = call
          /\ resp' = echo(call.r, call.req_param, call.op_res)
    /\ route' = "echo"
    /\ pc' = "echoed"

NextEcho == Echo

SpecEcho == Init /\ [][NextEcho]_vars

\* parse_rpc_echo_request applied to a request body
ParseRpcRequest ==
    /\ pc = "idle"
    /\ \E rbody \in RpcBodies :
          /\ req' = [rbody |-> rbody]
          /\ resp' = parse_rpc_echo_request(rbody)
    /\ route' = "parse_rpc_echo_request"
    /\ pc' = "rpc_parsed"

\* the response texts the unit tests give to make_response_body: None or a str
ResponseTexts == {PyNone} \cup {PyStr(x) : x \in SeqsUpTo(Chars, MaxText)}

\* make_response_body applied to a text, and its output read back
MakeResponseBody ==
    /\ pc = "idle"
    /\ \E response \in ResponseTexts :
          /\ req' = [response |-> response, xml_data |-> make_response_body(response)]
          /\ resp' = fromstring(make_response_body(response))
    /\ route' = "make_response_body"
    /\ pc' = "built"

NextParse ==
    \/ ParseEchoRequest
    \/ ParseSoapDocument
    \/ ParseRpcRequest
    \/ MakeResponseBody

SpecParse == Init /\ [][NextParse]_vars

\* the HOST and PORT values the environment may carry
Hosts ==
    {"0.0.0.0", "127.0.0.1", "localhost", "example.com", "echo.internal", "10.0.0.1",
     "::1", "h"}

Ports == {"5080", "80", "443", "8080", "8443", "5000", "1"}

\* make_wsdl under a configuration
MakeWsdl ==
    /\ pc = "idle"
    /\ \E host \in Hosts, port \in Ports :
          /\ req' = [cfg |-> Config(host, port)]
          /\ resp' = make_wsdl(Config(host, port))
    /\ route' = "make_wsdl"
    /\ pc' = "wsdl_made"

\* the generated bytes read back, as the unit tests do
ParseWsdl ==
    /\ pc = "wsdl_made"
    /\ resp' = fromstring(resp)
    /\ pc' = "wsdl_parsed"
    /\ UNCHANGED <<route, req>>

NextWsdl ==
    \/ MakeWsdl
    \/ ParseWsdl

SpecWsdl == Init /\ [][NextWsdl]_vars

\* ------------------------------------------- requests in flight together
\* the number of requests the server handles at the same time
MaxInFlight == 2

Slots == 1..MaxInFlight

\* the requests arriving while others are in flight
StepRequests(view) ==
    CASE view = "rest" ->
           {Request("POST", <<"/echo/rest">>, PyNone, d, BaseContext) :
               d \in {BytesRaw(<<97>>), BytesRaw(<<255>>)}}
      [] view = "rest_param" ->
           {Request("GET", <<"/echo/rest/", "a">>, PyStr(<<"a">>), BytesRaw(<<>>), BaseContext)}
      [] view = "echo_soap" ->
           {Request("POST", <<"/echo/soap">>, PyNone, d, BaseContext) :
               d \in {BytesRaw(<<97>>),
                      BytesXml("UTF-8", "utf-8",
                               Envelope(<<E(SOAP_ENVELOPE, "Body", NoText,
                                            <<E("", "EchoRequest", Toks(<<"Hi">>), <<>>)>>)>>))}}
      [] view = "rpc_endpoint" ->
           {Request("POST", <<"/echo/rpc">>, PyNone, d, BaseContext) :
               d \in {BytesRaw(<<255>>), BytesRaw(<<97>>),
                      BytesJson(JsonRpcObject(JString(<<"2.0">>), JString(<<"echo">>),
                                              JAbsent, JInt(1), JAbsent))}
                     \cup SampleJsonBodies}

StepViews == {"rest", "rest_param", "echo_soap", "rpc_endpoint"}

\* a local of rpc_endpoint that has not been assigned yet
Unbound == [t |-> "unbound"]

\* the locals of a request being handled: the registry, the req_body of
\* parse_rpc_echo_request (text), the req_body and resp_msg of rpc_endpoint,
\* what the registry lookup saw, the statements of the try block executed
\* so far, and the response
NewFrame ==
    [registry |-> {}, text |-> Unbound, req_body |-> Unbound, resp_msg |-> Unbound,
     seen |-> <<>>, trace |-> <<>>, out |-> PyNone]

InitSteps ==
    /\ pc = [i \in Slots |-> "idle"]
    /\ route = [i \in Slots |-> "none"]
    /\ req = [i \in Slots |-> PyNone]
    /\ resp = [i \in Slots |-> NewFrame]

RegistryCell_shared(i) == 1

\* the frame that holds the _registered_functions of the request in slot i:
\* the dict is a local of rpc_endpoint, so each call has its own
RegistryCell(i) == i

LookupRegistered_any(registry, method) == TRUE

\* _registered_functions[req_body["method"]] finds a function
LookupRegistered(registry, method) == method \in registry

\* the request in slot i arrives (g belongs to the request and only feeds the log)
log_request_start_at(i) ==
    /\ pc[i] = "idle"
    /\ \E view \in StepViews : \E r \in StepRequests(view) :
          /\ route' = [route EXCEPT ![i] = view]
          /\ req' = [req EXCEPT ![i] = r]
    /\ pc' = [pc EXCEPT ![i] = "view"]
    /\ UNCHANGED resp

\* rest, rest_param and echo_soap touch nothing but the request
ViewAt(i) ==
    /\ pc[i] = "view" /\ route[i] \in {"rest", "rest_param", "echo_soap"}
    /\ resp' = [resp EXCEPT ![i].out =
                   CASE route[i] = "rest" -> rest(req[i])
                     [] route[i] = "rest_param" -> rest_param(req[i], req[i].view_args)
                     [] route[i] = "echo_soap" -> echo_soap(req[i])]
    /\ pc' = [pc EXCEPT ![i] = "after"]
    /\ UNCHANGED <<route, req>>

\* _registered_functions = {}
NewRegistry(i) ==
    /\ pc[i] = "view" /\ route[i] = "rpc_endpoint"
    /\ resp' = [resp EXCEPT ![RegistryCell(i)].registry = {}]
    /\ pc' = [pc EXCEPT ![i] = "new_registry"]
    /\ UNCHANGED <<route, req>>

\* register_function(echo)
RegisterFunction(i) ==
    /\ pc[i] = "new_registry"
    /\ resp' = [resp EXCEPT ![RegistryCell(i)].registry = @ \cup {<<"echo">>}]
    /\ pc' = [pc EXCEPT ![i] = "try"]
    /\ UNCHANGED <<route, req>>

\* rbody.decode("UTF-8")
Decode(i) ==
    /\ pc[i] = "try"
    /\ LET text == decode_utf8(req[i].data) IN
       /\ resp' = [resp EXCEPT ![i].trace = Append(@, "decode"),
                               ![i].text = IF IsRaise(text) THEN @ ELSE text,
                               ![i].resp_msg = IF IsRaise(text) THEN text ELSE @]
       /\ pc' = [pc EXCEPT ![i] = IF IsRaise(text) THEN "except" ELSE "decoded"]
    /\ UNCHANGED <<route, req>>

\* json.loads(req_body)
Loads(i) ==
    /\ pc[i] = "decoded"
    /\ LET loaded == json_loads_text(resp[i].text) IN
       /\ resp' = [resp EXCEPT ![i].trace = Append(@, "loads"),
                               ![i].text = IF IsRaise(loaded) THEN @ ELSE loaded,
                               ![i].resp_msg = IF IsRaise(loaded) THEN loaded ELSE @]
       /\ pc' = [pc EXCEPT ![i] = IF IsRaise(loaded) THEN "except" ELSE "loaded"]
    /\ UNCHANGED <<route, req>>

\* validate(instance=req_body, schema=_json_rpc_schema); return req_body
Validate(i) ==
    /\ pc[i] = "loaded"
    /\ LET valid == _json_rpc_schema(resp[i].text) IN
       /\ resp' = [resp EXCEPT ![i].trace = Append(@, "validate"),
                               ![i].req_body = IF valid THEN resp[i].text ELSE @,
                               ![i].resp_msg = IF valid THEN @ ELSE Raise("ValidationError")]
       /\ pc' = [pc EXCEPT ![i] = IF valid THEN "validated" ELSE "except"]
    /\ UNCHANGED <<route, req>>

\* _registered_functions[req_body["method"]]
Lookup(i) ==
    /\ pc[i] = "validated"
    /\ LET registry == resp[RegistryCell(i)].registry
           found == LookupRegistered(registry, resp[i].req_body.d["method"].s) IN
       /\ resp' = [resp EXCEPT ![i].trace = Append(@, "lookup"),
                               ![i].seen = Append(@, registry),
                               ![i].resp_msg = IF found THEN @ ELSE Raise("KeyError")]
       /\ pc' = [pc EXCEPT ![i] = IF found THEN "found" ELSE "except"]
    /\ UNCHANGED <<route, req>>

\* the call of the function found: echo(request, op_res=req_body)
CallEcho(i) ==
    /\ pc[i] = "found"
    /\ LET resp_msg == InvokeRegistered(req[i], resp[i].req_body) IN
       /\ resp' = [resp EXCEPT ![i].trace = Append(@, "echo"),
                               ![i].resp_msg = resp_msg]
       /\ pc' = [pc EXCEPT ![i] = IF IsRaise(resp_msg) THEN "except" ELSE "called"]
    /\ UNCHANGED <<route, req>>

\* resp_body = {"jsonrpc": "2.0", "result": resp_msg, "id": req_body["id"]}
\* and the Response built from it
Respond(i) ==
    /\ pc[i] = "called"
    /\ resp' = [resp EXCEPT ![i].trace = Append(@, "respond"),
                            ![i].out = RpcResponse(RpcResult(resp[i].resp_msg,
                                                             resp[i].req_body.d["id"]), 200)]
    /\ pc' = [pc EXCEPT ![i] = "after"]
    /\ UNCHANGED <<route, req>>

\* the except clause for the exception raised, and the Response built from it
Except(i) ==
    /\ pc[i] = "except"
    /\ resp' = [resp EXCEPT ![i].trace = Append(@, "respond"),
                            ![i].out = RpcExcept(resp[i].resp_msg, resp[i].req_body)]
    /\ pc' = [pc EXCEPT ![i] = "after"]
    /\ UNCHANGED <<route, req>>

\* the response of slot i leaves; the locals of the call are gone
log_request_response_at(i) ==
    /\ pc[i] = "after"
    /\ pc' = [pc EXCEPT ![i] = "idle"]
    /\ route' = [route EXCEPT ![i] = "none"]
    /\ req' = [req EXCEPT ![i] = PyNone]
    /\ resp' = [resp EXCEPT ![i] = NewFrame]

NextSteps ==
    \/ \E i \in Slots : log_request_start_at(i)
    \/ \E i \in Slots : ViewAt(i)
    \/ \E i \in Slots : NewRegistry(i)
    \/ \E i \in Slots : RegisterFunction(i)
    \/ \E i \in Slots : Decode(i)
    \/ \E i \in Slots : Loads(i)
    \/ \E i \in Slots : Validate(i)
    \/ \E i \in Slots : Lookup(i)
    \/ \E i \in Slots : CallEcho(i)
    \/ \E i \in Slots : Respond(i)
    \/ \E i \in Slots : Except(i)
    \/ \E i \in Slots : log_request_response_at(i)

SpecSteps == InitSteps /\ [][NextSteps]_vars

Next ==
    \/ log_request_start
    \/ Rest
    \/ RestParam
    \/ EchoSoap
    \/ Wsdl
    \/ RpcEndpoint
    \/ log_request_response

Spec == Init /\ [][Next]_vars

\* a view function has run on req and left resp
Handled(view) == pc = "after" /\ route = view

TypeOK == resp.t \in {"none", "response", "raise", "dict", "str"}

\* ======================================================= checked properties
\* -- vocabulary of the properties, stated on the wire form of the request

\* the body bytes are valid UTF-8
ValidUtf8Bytes(bs) ==
    \A i \in 1..Len(bs) :
        \/ bs[i] < 128
        \/ bs[i] >= 194 /\ bs[i] <= 223 /\ i < Len(bs) /\ IsContinuation(bs[i + 1])
        \/ IsContinuation(bs[i]) /\ i > 1 /\ bs[i - 1] >= 194 /\ bs[i - 1] <= 223

ValidUtf8(data) ==
    CASE data.kind = "raw" -> ValidUtf8Bytes(data.bytes)
      [] data.kind = "xml" -> data.enc = "utf-8" \/ ~HasNonAscii(data.root)
      [] data.kind = "json" -> TRUE

\* the body is a JSON text that satisfies the JSON-RPC request schema
WireSchemaValid(data) ==
    /\ data.kind = "json"
    /\ data.ast.j = "object"
    /\ DOMAIN data.ast.jo = RpcKeys
    /\ data.ast.jo["jsonrpc"] = JString(<<"2.0">>)
    /\ data.ast.jo["method"].j = "string" /\ data.ast.jo["method"].js # <<>>
    /\ data.ast.jo["params"].j = "array"
    /\ \/ data.ast.jo["id"].j \in {"int", "string", "null"}
       \/ data.ast.jo["id"] = JFloat("1.0")

WireMethod(data) == data.ast.jo["method"].js
WireId(data) == json_loads(data.ast.jo["id"])

\* the decoded JSON body of a response
ResponseJson == json_loads(resp.body.ast)

IsEchoDocument(v) ==
    /\ v.t = "dict"
    /\ DOMAIN v.d = {"client", "request", "op_result"}
    /\ v.d["request"].t = "dict"
    /\ DOMAIN v.d["request"].d = {"http", "params", "query_param", "headers", "body"}

\* the response has the shape of the protocol of the view that built it
ProtocolShaped ==
    /\ resp.t = "response"
    /\ route \in {"rest", "rest_param"} =>
          resp.body.kind = "json" /\ resp.body.ast.j = "object"
    /\ route = "echo_soap" =>
          resp.body.kind = "xml" /\ IsTag(resp.body.root, SOAP_ENVELOPE, "Envelope")
    /\ route = "rpc_endpoint" =>
          /\ resp.body.kind = "json" /\ resp.body.ast.j = "object"
          /\ "jsonrpc" \in DOMAIN resp.body.ast.jo

\* C1: whatever the request body, a REST, SOAP or JSON-RPC view returns a
\* response in its protocol's shape; no exception escapes the view.
C1_NoEscape == pc = "after" => ProtocolShaped

\* C2: a REST request has exactly two outcomes: valid UTF-8 body -> 200,
\* application/json, the EchoDocument; otherwise 500, application/json,
\* {"error": "Request must be valid Unicode"}.
C2_RestOutcomes ==
    (pc = "after" /\ route \in {"rest", "rest_param"}) =>
        /\ resp.t = "response"
        /\ resp.content_type = "application/json"
        /\ resp.body.kind = "json"
        /\ IF ValidUtf8(req.data)
           THEN /\ resp.status = 200
                /\ IsEchoDocument(ResponseJson)
                /\ ResponseJson.d["request"].d["http"].d["method"] = PyStr(<<req.method>>)
           ELSE /\ resp.status = 500
                /\ ResponseJson =
                     PyDict([error |-> PyStr(<<"Request must be valid Unicode">>)])

C2_Witness ==
    /\ Handled("rest_param")
    /\ req.data = BytesRaw(<<97, 195>>)
    /\ resp.status = 500

ParseErrorBody ==
    PyDict([jsonrpc |-> PyStr(<<"2.0">>),
            error |-> PyDict([code |-> PyInt(-32700), message |-> PyStr(<<"Parse error">>)]),
            id |-> PyNone])

\* C3: a JSON-RPC body that is not valid UTF-8, not JSON or not schema-valid
\* is answered 400 with the parse-error object, whose id is null even when
\* the payload carried an id.
C3_ParseError ==
    (Handled("rpc_endpoint") /\ (~ValidUtf8(req.data) \/ ~WireSchemaValid(req.data))) =>
        /\ resp.t = "response"
        /\ resp.status = 400
        /\ resp.body.kind = "json"
        /\ ResponseJson = ParseErrorBody

C3_Witness ==
    /\ Handled("rpc_endpoint")
    /\ req.data = BytesJson(JsonRpcObject(JString(<<"2.0">>), JString(<<"echo">>),
                                          JArray(<<>>), JInt(1), JInt(1)))
    /\ resp.status = 400
    /\ ResponseJson.d["id"] = PyNone

\* C4: a schema-valid request whose method is not "echo" is answered 200 with
\* the method-not-found error object carrying the id of the request.
C4_MethodNotFound ==
    (Handled("rpc_endpoint") /\ WireSchemaValid(req.data)
        /\ WireMethod(req.data) # <<"echo">>) =>
        /\ resp.t = "response"
        /\ resp.status = 200
        /\ resp.body.kind = "json"
        /\ ResponseJson =
             PyDict([jsonrpc |-> PyStr(<<"2.0">>),
                     error |-> PyDict([code |-> PyInt(-32601),
                                       message |-> PyStr(<<"Method not found">>)]),
                     id |-> WireId(req.data)])

C4_Witness ==
    /\ Handled("rpc_endpoint")
    /\ WireSchemaValid(req.data)
    /\ WireMethod(req.data) = <<"nope">>
    /\ WireId(req.data) = PyStr(<<"abc">>)
    /\ resp.status = 200

\* C5: a schema-valid "echo" request is answered 200 with
\* {jsonrpc, result: EchoDocument, id}; the id comes back unchanged and a
\* null id still gets a result.
C5_EchoResult ==
    (Handled("rpc_endpoint") /\ WireSchemaValid(req.data)
        /\ WireMethod(req.data) = <<"echo">>) =>
        /\ resp.t = "response"
        /\ resp.status = 200
        /\ resp.body.kind = "json"
        /\ ResponseJson.t = "dict"
        /\ DOMAIN ResponseJson.d = {"jsonrpc", "result", "id"}
        /\ ResponseJson.d["jsonrpc"] = PyStr(<<"2.0">>)
        /\ ResponseJson.d["id"] = WireId(req.data)
        /\ IsEchoDocument(ResponseJson.d["result"])

C5_Witness ==
    /\ Handled("rpc_endpoint")
    /\ WireSchemaValid(req.data)
    /\ WireMethod(req.data) = <<"echo">>
    /\ WireId(req.data) = PyNone
    /\ resp.status = 200
    /\ IsEchoDocument(ResponseJson.d["result"])

\* C6: every body the JSON-RPC view produces is an object with exactly the
\* keys jsonrpc (= "2.0"), id and one of result / error; an error object has
\* exactly the keys code and message.
C6_RpcEnvelope ==
    (Handled("rpc_endpoint") /\ resp.t = "response") =>
        /\ resp.body.kind = "json"
        /\ ResponseJson.t = "dict"
        /\ \/ DOMAIN ResponseJson.d = {"jsonrpc", "id", "result"}
           \/ DOMAIN ResponseJson.d = {"jsonrpc", "id", "error"}
        /\ ResponseJson.d["jsonrpc"] = PyStr(<<"2.0">>)
        /\ "error" \in DOMAIN ResponseJson.d =>
              /\ ResponseJson.d["error"].t = "dict"
              /\ DOMAIN ResponseJson.d["error"].d = {"code", "message"}

C6_Witness ==
    /\ Handled("rpc_endpoint")
    /\ resp.t = "response"
    /\ resp.status = 200
    /\ "error" \in DOMAIN ResponseJson.d
    /\ ResponseJson.d["id"] = PyInt(1)

\* -- SOAP responses, read back from the bytes of the response
ResponseXml == fromstring(resp.body).el

\* Envelope > Body > Fault > {faultcode, faultstring}
IsFaultEnvelope(e) ==
    /\ IsTag(e, SOAP_ENVELOPE, "Envelope")
    /\ Len(e.kids) = 1 /\ IsTag(e.kids[1], SOAP_ENVELOPE, "Body")
    /\ Len(e.kids[1].kids) = 1 /\ e.kids[1].kids[1].local = "Fault"
    /\ Len(e.kids[1].kids[1].kids) = 2
    /\ IsTag(e.kids[1].kids[1].kids[1], "", "faultcode")
    /\ IsTag(e.kids[1].kids[1].kids[2], "", "faultstring")

FaultCode(e) == e.kids[1].kids[1].kids[1].text
FaultString(e) == e.kids[1].kids[1].kids[2].text

IsSoapFault ==
    /\ resp.t = "response"
    /\ resp.status = 500
    /\ resp.body.kind = "xml"
    /\ IsFaultEnvelope(ResponseXml)
    /\ FaultCode(ResponseXml) = Toks(<<"Client">>)

\* the first Body element (envelope namespace) below the document element
WireBodies(data) ==
    SelectSeq(Descendants(data.root), LAMBDA e : IsTag(e, SOAP_ENVELOPE, "Body"))

\* C7: a SOAP body that fails parsing is answered 500, application/xml, with
\* a fault envelope of faultcode "Client" whose faultstring names the failure:
\* "Empty SOAP Body" (Body missing or childless), "Missing EchoRequest
\* element" (Body without EchoRequest child), or a malformed-XML description.
C7_SoapFault ==
    (Handled("echo_soap") /\ IsRaise(parse_soap_echo_request(req.data))) =>
        /\ IsSoapFault
        /\ resp.content_type = "application/xml"
        /\ FaultString(ResponseXml).x = "toks"
        /\ parse_soap_echo_request(req.data).exc = "ValueError" =>
              IF WireBodies(req.data) = <<>> \/ WireBodies(req.data)[1].kids = <<>>
              THEN FaultString(ResponseXml) = Toks(<<"Empty SOAP Body">>)
              ELSE FaultString(ResponseXml) = Toks(<<"Missing EchoRequest element">>)

\* C8: a SOAP envelope that parses to the request text x is answered 200,
\* "application/xml; charset=utf-8", with Envelope > Body > EchoResponse whose
\* text is the JSON encoding of the EchoDocument, with op_result = x.
C8_SoapSuccess ==
    (Handled("echo_soap") /\ ~IsRaise(parse_soap_echo_request(req.data))) =>
        /\ resp.t = "response"
        /\ resp.status = 200
        /\ resp.content_type = "application/xml; charset=utf-8"
        /\ resp.body.kind = "xml"
        /\ IsTag(ResponseXml, SOAP_ENVELOPE, "Envelope")
        /\ Len(ResponseXml.kids) = 1 /\ IsTag(ResponseXml.kids[1], SOAP_ENVELOPE, "Body")
        /\ Len(ResponseXml.kids[1].kids) = 1
        /\ IsTag(ResponseXml.kids[1].kids[1], "", "EchoResponse")
        /\ ResponseXml.kids[1].kids[1].text.x = "json"
        /\ IsEchoDocument(json_loads(ResponseXml.kids[1].kids[1].text.ast))
        /\ json_loads(ResponseXml.kids[1].kids[1].text.ast).d["op_result"]
             = parse_soap_echo_request(req.data)

\* C9: a SOAP body that is not valid UTF-8 is answered 500 with a fault
\* envelope of faultcode "Client", whether or not it parses as XML.
C9_SoapNotUtf8 ==
    (Handled("echo_soap") /\ ~ValidUtf8(req.data)) => IsSoapFault

\* C10 as stated: for every string x the request envelope built around x
\* parses back to exactly x, and absent text gives the empty string.
C10_RoundTripAnyText ==
    pc = "parsed" =>
        resp = PyStr(IF req.text.x = "none" THEN <<>> ELSE req.text.toks)

\* characters an XML document may carry, the carriage return excepted
XmlSafeText(text) ==
    text.x = "toks" => \A i \in 1..Len(text.toks) : text.toks[i] \notin {"\r", "U+0001"}

\* C10 amended: for every string x of characters XML allows and without
\* carriage returns the request envelope built around x parses back to
\* exactly x; absent or empty text gives the empty string, never None.
C10_RoundTrip ==
    (pc = "parsed" /\ XmlSafeText(req.text)) =>
        resp = PyStr(IF req.text.x = "none" THEN <<>> ELSE req.text.toks)

C10_Witness ==
    /\ pc = "parsed"
    /\ req.text = Toks(<<"<", "&">>)
    /\ req.xml_data.root.kids[1].kids[1].text = Toks(<<"&lt;", "&amp;">>)
    /\ resp = PyStr(<<"<", "&">>)

\* -- lookup of the request element
\* the direct children of the first Body whose local name is EchoRequest
WireEchoRequests(data) ==
    SelectSeq(WireBodies(data)[1].kids, LAMBDA k : k.local = "EchoRequest")

\* the document parses and its first Body has an EchoRequest child, qualified or not
HasEchoRequestChild(data) ==
    /\ ~IsRaise(fromstring(data))
    /\ WireBodies(data) # <<>>
    /\ WireEchoRequests(data) # <<>>

\* the text the parser reports for the character data written in the document
ParsedText(data, text) == TextOrEmpty(ParseText(text, data.decl, data.enc))

\* C11 as stated: the EchoRequest child of Body is found by its local name,
\* whatever its namespace, and its text is returned.
C11_AnyNamespace ==
    (pc = "parsed_doc" /\ HasEchoRequestChild(req.xml_data)) =>
        resp = ParsedText(req.xml_data, WireEchoRequests(req.xml_data)[1].text)

\* C11 amended: the EchoRequest child of Body is found, and its text
\* returned, only when it is in no namespace; when every EchoRequest child is
\* namespace-qualified the parse fails with "Missing EchoRequest element".
C11_NoNamespace ==
    (pc = "parsed_doc" /\ HasEchoRequestChild(req.xml_data)) =>
        LET unqualified == SelectSeq(WireEchoRequests(req.xml_data), LAMBDA k : k.ns = "") IN
        IF unqualified # <<>>
        THEN resp = ParsedText(req.xml_data, unqualified[1].text)
        ELSE resp = RaiseMsg("ValueError", "Missing EchoRequest element")

C11_Witness ==
    /\ pc = "parsed_doc"
    /\ req.xml_data.decl = "UTF-8"
    /\ req.xml_data.root =
          Envelope(<<E(SOAP_ENVELOPE, "Body", NoText,
                       <<E(SOAP_TNS, "EchoRequest", Toks(<<"Hi">>), <<>>)>>)>>)
    /\ resp = RaiseMsg("ValueError", "Missing EchoRequest element")

\* Envelope > Body > tns:Echo > request, well-formed and written in UTF-8
IsEchoWrapperRequest(data) ==
    /\ data.kind = "xml"
    /\ data.decl \in {"none", "UTF-8"} /\ data.enc = "utf-8"
    /\ WellFormed(data.root)
    /\ IsTag(data.root, SOAP_ENVELOPE, "Envelope")
    /\ Len(data.root.kids) = 1 /\ IsTag(data.root.kids[1], SOAP_ENVELOPE, "Body")
    /\ Len(data.root.kids[1].kids) = 1 /\ IsTag(data.root.kids[1].kids[1], SOAP_TNS, "Echo")
    /\ Len(data.root.kids[1].kids[1].kids) = 1
    /\ IsTag(data.root.kids[1].kids[1].kids[1], "", "request")

\* C12: a well-formed envelope whose Body holds tns:Echo wrapping a request
\* element (empty or not) is answered 200 with an EchoResponse element.
C12_EchoWrapperAccepted ==
    (Handled("echo_soap") /\ IsEchoWrapperRequest(req.data)) =>
        /\ resp.t = "response"
        /\ resp.status = 200
        /\ resp.body.kind = "xml"
        /\ \E i \in 1..Len(Descendants(ResponseXml)) :
              Descendants(ResponseXml)[i].local = "EchoResponse"

\* -- the EchoDocument returned by echo
DocBody == resp.d["request"].d["body"]
DocParams == resp.d["request"].d["params"]
DocHeaders == resp.d["request"].d["headers"]
DocHttp == resp.d["request"].d["http"]
DocClient == resp.d["client"]

\* the (key, value) pairs of a form, in the order of the form
FormPairs(form) ==
    PyList([i \in 1..Len(form) |-> PyTuple(<<PyStr(<<form[i].key>>), PyStr(form[i].value)>>)])

\* C13 as stated: with a non-empty form request.body is the sequence of the
\* form's (key, value) pairs whatever the raw body bytes are; with an empty
\* form it is the UTF-8 decoding of the raw body.
C13_FormWinsAnyBytes ==
    pc = "echoed" =>
        IF req.r.form # <<>>
        THEN resp.t = "dict" /\ DocBody = FormPairs(req.r.form)
        ELSE ValidUtf8(req.r.data) =>
                 resp.t = "dict" /\ DocBody = decode_utf8(req.r.data)

\* C13 amended: for raw body bytes that are valid UTF-8, request.body is the
\* sequence of the form's (key, value) pairs, in order, when the form is
\* non-empty, and the decoded raw body when the form is empty.
C13_FormWins ==
    (pc = "echoed" /\ ValidUtf8(req.r.data)) =>
        /\ resp.t = "dict"
        /\ IF req.r.form # <<>>
           THEN DocBody = FormPairs(req.r.form)
           ELSE DocBody = decode_utf8(req.r.data)

C13_Witness ==
    /\ pc = "echoed"
    /\ req.r.data = BytesRaw(<<97>>)
    /\ Len(req.r.form) = 2
    /\ DocBody = PyList(<<PyTuple(<<PyStr(<<"b">>), PyStr(<<"<">>)>>),
                          PyTuple(<<PyStr(<<"a">>), PyStr(<<>>)>>)>>)

\* C14: echo returns a document exactly when the raw body bytes are valid
\* UTF-8 and raises otherwise, whatever the rest of the request is; the only
\* exception it raises is UnicodeDecodeError.
C14_DecodeOutcome ==
    pc = "echoed" =>
        /\ ValidUtf8(req.r.data) => resp.t = "dict"
        /\ ~ValidUtf8(req.r.data) => resp = Raise("UnicodeDecodeError")
        /\ IsRaise(resp) => resp.exc = "UnicodeDecodeError"

C14_Witness ==
    /\ pc = "echoed"
    /\ req.r.data = BytesRaw(<<97, 255>>)
    /\ req.r.form # <<>>
    /\ resp = Raise("UnicodeDecodeError")

\* C15: request.headers has one single-key object per received header
\* instance, in the same order, each holding that instance's own name and
\* value, repeated names included.
C15_HeaderInstances ==
    (pc = "echoed" /\ resp.t = "dict") =>
        /\ DocHeaders.t = "list"
        /\ Len(DocHeaders.l) = Len(req.r.headers)
        /\ \A i \in 1..Len(req.r.headers) :
              DocHeaders.l[i] =
                  PyDict([h \in {req.r.headers[i].name} |-> PyStr(req.r.headers[i].value)])

\* the entity that stands for a markup character
EntityOf(c) ==
    CASE c = "<" -> "&lt;"
      [] c = ">" -> "&gt;"
      [] c = "&" -> "&amp;"
      [] c = "\"" -> "&#34;"
      [] c = "'" -> "&#39;"

MarkupChars == {"<", ">", "&", "\"", "'"}

\* C16: request.params is the escaped path parameter: each of < > & " ' is
\* replaced by its entity, every other character is kept, so none of the five
\* characters is left; a None parameter is stored as the text "None".
C16_EscapedParam ==
    (pc = "echoed" /\ resp.t = "dict") =>
        /\ DocParams.t = "markup"
        /\ \A i \in 1..Len(DocParams.m) : DocParams.m[i] \notin MarkupChars
        /\ IF req.req_param = PyNone
           THEN DocParams.m = <<"None">>
           ELSE /\ Len(DocParams.m) = Len(req.req_param.s)
                /\ \A i \in 1..Len(req.req_param.s) :
                      DocParams.m[i] = IF req.req_param.s[i] \in MarkupChars
                                       THEN EntityOf(req.req_param.s[i])
                                       ELSE req.req_param.s[i]

C16_Witness ==
    /\ pc = "echoed"
    /\ req.req_param = PyStr(<<"'", "&">>)
    /\ DocParams = PyMarkup(<<"&#39;", "&amp;">>)

\* C17: method and path of the document are those of the request; host, port
\* and protocol are the values the transport reports, and None - not the
\* empty string - when it reports none.
C17_MirrorsTransport ==
    (pc = "echoed" /\ resp.t = "dict") =>
        /\ DocHttp.d["method"] = PyStr(<<req.r.method>>)
        /\ DocHttp.d["path"] = PyStr(req.r.path)
        /\ DocClient.d["host"] = req.r.remote_addr
        /\ DocClient.d["port"] = IF "REMOTE_PORT" \in DOMAIN req.r.environ
                                 THEN req.r.environ["REMOTE_PORT"] ELSE PyNone
        /\ DocHttp.d["protocol"] = IF "SERVER_PROTOCOL" \in DOMAIN req.r.environ
                                   THEN req.r.environ["SERVER_PROTOCOL"] ELSE PyNone

C17_Witness ==
    /\ pc = "echoed"
    /\ DOMAIN req.r.environ = {"SERVER_PROTOCOL"}
    /\ DocClient.d["port"] = PyNone
    /\ DocHttp.d["protocol"] = PyStr(<<"HTTP/1.1">>)
    /\ DocHttp.d["method"] = PyStr(<<"POST">>)

\* -- the EchoDocument as it leaves a view, read back from the response
WireEchoDocument ==
    CASE route \in {"rest", "rest_param"} -> ResponseJson
      [] route = "echo_soap" -> json_loads(ResponseXml.kids[1].kids[1].text.ast)
      [] route = "rpc_endpoint" -> ResponseJson.d["result"]

\* the view answered with an EchoDocument
AnsweredWithDocument ==
    /\ pc = "after"
    /\ route \in {"rest", "rest_param", "echo_soap", "rpc_endpoint"}
    /\ resp.t = "response"
    /\ resp.status = 200
    /\ route = "rpc_endpoint" => "result" \in DOMAIN ResponseJson.d

\* C18: every EchoDocument, whichever view returns it, has exactly the keys
\* {client, request, op_result}, client = {host, port}, request = {http,
\* params, query_param, headers, body} and http = {method, path, protocol}.
C18_FixedKeys ==
    AnsweredWithDocument =>
        /\ WireEchoDocument.t = "dict"
        /\ DOMAIN WireEchoDocument.d = {"client", "request", "op_result"}
        /\ WireEchoDocument.d["client"].t = "dict"
        /\ DOMAIN WireEchoDocument.d["client"].d = {"host", "port"}
        /\ WireEchoDocument.d["request"].t = "dict"
        /\ DOMAIN WireEchoDocument.d["request"].d =
              {"http", "params", "query_param", "headers", "body"}
        /\ WireEchoDocument.d["request"].d["http"].t = "dict"
        /\ DOMAIN WireEchoDocument.d["request"].d["http"].d = {"method", "path", "protocol"}

C18_Witness ==
    /\ Handled("echo_soap")
    /\ resp.t = "response"
    /\ resp.status = 200
    /\ "REMOTE_PORT" \notin DOMAIN req.environ
    /\ WireEchoDocument.d["client"].d["port"] = PyNone
    /\ WireEchoDocument.d["op_result"] = PyStr(<<"Hi">>)

\* C19: a REST request with a valid UTF-8 body and no form fields gets a
\* document whose request.body and op_result both are the decoded body (the
\* empty string for an empty body).
C19_RestBodyIsResult ==
    (pc = "after" /\ route \in {"rest", "rest_param"}
        /\ ValidUtf8(req.data) /\ req.form = <<>>) =>
        /\ resp.t = "response"
        /\ resp.status = 200
        /\ ResponseJson.d["request"].d["body"] = decode_utf8(req.data)
        /\ ResponseJson.d["op_result"] = decode_utf8(req.data)
        /\ req.data = BytesRaw(<<>>) => ResponseJson.d["op_result"] = PyStr(<<>>)

C19_Witness ==
    /\ Handled("rest")
    /\ req.data = BytesRaw(<<195, 169>>)
    /\ req.form = <<>>
    /\ ResponseJson.d["request"].d["body"] = PyStr(<<"U+00E9">>)
    /\ ResponseJson.d["op_result"] = PyStr(<<"U+00E9">>)

\* -- the JSON-RPC request schema, stated on the JSON text
JsonKinds == {"null", "bool", "int", "float", "string", "array", "object"}

\* everything the request schema asks for, the id excepted
WireRequestShape(a) ==
    /\ a.j = "object"
    /\ DOMAIN a.jo = RpcKeys
    /\ a.jo["jsonrpc"] = JString(<<"2.0">>)
    /\ a.jo["method"].j = "string" /\ Len(a.jo["method"].js) >= 1
    /\ a.jo["params"].j = "array"
    /\ \A i \in 1..Len(a.jo["params"].ja) : a.jo["params"].ja[i].j \in JsonKinds

\* C20 as stated: a decoded JSON value is accepted, and returned unchanged,
\* exactly when it is an object with the keys jsonrpc = "2.0", method (a
\* non-empty string), params (an array) and id (an integer, a string or
\* null), and nothing else; every other value is rejected.
C20_AcceptsIntegerId ==
    (pc = "rpc_parsed" /\ req.rbody.kind = "json") =>
        IF WireRequestShape(req.rbody.ast)
           /\ req.rbody.ast.jo["id"].j \in {"int", "string", "null"}
        THEN resp = json_loads(req.rbody.ast)
        ELSE resp = Raise("ValidationError")

\* C20 amended: as stated, with the id an integer, a number written with a
\* zero fractional part (1.0), a string or null.
C20_AcceptsSchema ==
    (pc = "rpc_parsed" /\ req.rbody.kind = "json") =>
        IF WireRequestShape(req.rbody.ast)
           /\ \/ req.rbody.ast.jo["id"].j \in {"int", "string", "null"}
              \/ req.rbody.ast.jo["id"] = JFloat("1.0")
        THEN resp = json_loads(req.rbody.ast)
        ELSE resp = Raise("ValidationError")

C20_Witness ==
    /\ pc = "rpc_parsed"
    /\ req.rbody.kind = "json"
    /\ WireRequestShape(req.rbody.ast)
    /\ req.rbody.ast.jo["id"] = JFloat("1.0")
    /\ Len(req.rbody.ast.jo["params"].ja) = 4
    /\ resp.t = "dict"
    /\ resp.d["id"] = PyFloat("1.0")

\* -- the WSDL document
\* the media type of a Content-Type header value (its parameters dropped)
MediaType(content_type) ==
    IF content_type = "application/xml; charset=utf-8" THEN "application/xml"
    ELSE content_type

\* the bytes are an XML document whose root is wsdl:definitions
IsWsdl(body) == body.kind = "xml" /\ IsTag(body.root, SOAP_WSDL, "definitions")

\* C21: GET /echo/soap answers 200, application/xml, the WSDL exactly when
\* the query has a key wsdl (whatever its value), and 404 without a WSDL
\* otherwise; POST /echo/soap always goes to the SOAP echo view and is never
\* answered with the WSDL, the wsdl key present or not.
C21_WsdlMarker ==
    /\ Handled("wsdl") =>
          /\ resp.t = "response"
          /\ IF "wsdl" \in DOMAIN req.args
             THEN /\ resp.status = 200
                  /\ MediaType(resp.content_type) = "application/xml"
                  /\ IsWsdl(resp.body)
             ELSE /\ resp.status = 404
                  /\ ~IsWsdl(resp.body)
    /\ (pc \in {"view", "after"} /\ req.path = <<"/echo/soap">>) =>
          (req.method = "POST" <=> route = "echo_soap")
    /\ (Handled("echo_soap") /\ resp.t = "response") => ~IsWsdl(resp.body)

C21_Witness ==
    /\ Handled("wsdl")
    /\ req.args = [k \in {"wsdl"} |-> PyStr(<<>>)]
    /\ resp.status = 200
    /\ IsWsdl(resp.body)

\* the value of attribute name of element e, "" when e has none
Attr(e, name) ==
    LET hits == SelectSeq(e.attrib, LAMBDA a : a[1] = name) IN
    IF hits = <<>> THEN "" ELSE hits[1][2]

\* the descendants of e with the given tag, in document order
ElementsOf(e, ns, local) == SelectSeq(Descendants(e), LAMBDA k : IsTag(k, ns, local))

\* a generated WSDL has been read back into a tree
WsdlParsed == pc = "wsdl_parsed" /\ resp.t = "element"

\* C22: for every service address the WSDL has targetNamespace = address +
\* "/echo/soap", the soapAction of the bound Echo operation = targetNamespace
\* + "/echo" and the location of the port address = targetNamespace + "/".
C22_Addresses ==
    pc = "wsdl_parsed" =>
        /\ resp.t = "element"
        /\ Attr(resp.el, "targetNamespace") = req.cfg.SERVICE_ADDRESS \o "/echo/soap"
        /\ Len(ElementsOf(resp.el, SOAP_NS, "operation")) = 1
        /\ Attr(ElementsOf(resp.el, SOAP_NS, "operation")[1], "soapAction") =
               req.cfg.SERVICE_ADDRESS \o "/echo/soap/echo"
        /\ Len(ElementsOf(resp.el, SOAP_NS, "address")) = 1
        /\ Attr(ElementsOf(resp.el, SOAP_NS, "address")[1], "location") =
               req.cfg.SERVICE_ADDRESS \o "/echo/soap/"

\* the name attributes of the elements
NamesOf(elems) == [i \in 1..Len(elems) |-> Attr(elems[i], "name")]

PartsOf(root, name) ==
    LET msgs == SelectSeq(ElementsOf(root, SOAP_WSDL, "message"),
                          LAMBDA m : Attr(m, "name") = name)
        parts == Flatten([i \in 1..Len(msgs) |-> ElementsOf(msgs[i], SOAP_WSDL, "part")])
    IN  [i \in 1..Len(parts) |-> <<Attr(parts[i], "name"), Attr(parts[i], "type")>>]

\* C24: in a generated WSDL the EchoRequest message has exactly one part,
\* request of type xsd:string, and the EchoResponse message exactly one part,
\* response of type xsd:string.
C24_PartNames ==
    pc = "wsdl_parsed" =>
        /\ resp.t = "element"
        /\ PartsOf(resp.el, "EchoRequest") = <<<<"request", "xsd:string">>>>
        /\ PartsOf(resp.el, "EchoResponse") = <<<<"response", "xsd:string">>>>

\* -- the success envelope
\* the unqualified EchoResponse children of the Body children of the envelope e
EchoResponsesOf(e) ==
    Flatten([i \in 1..Len(e.kids) |->
        IF IsTag(e.kids[i], SOAP_ENVELOPE, "Body")
        THEN SelectSeq(e.kids[i].kids, LAMBDA k : IsTag(k, "", "EchoResponse"))
        ELSE <<>>])

\* the output of make_response_body starts with an XML declaration naming
\* UTF-8 and parses to Envelope > Body > EchoResponse carrying the text
BuiltAround(text) ==
    /\ req.xml_data.decl = "UTF-8"
    /\ resp.t = "element"
    /\ IsTag(resp.el, SOAP_ENVELOPE, "Envelope")
    /\ Len(EchoResponsesOf(resp.el)) = 1
    /\ EchoResponsesOf(resp.el)[1].text \in text

\* C27 as stated: for every non-empty string t the success envelope built
\* around t parses to Envelope > Body > EchoResponse with the text t; for t
\* None or empty the element is there with empty or absent text; the output
\* always starts with an XML declaration naming UTF-8.
C27_EnvelopeAnyText ==
    pc = "built" =>
        IF req.response \in {PyNone, PyStr(<<>>)}
        THEN BuiltAround({NoText, Toks(<<>>)})
        ELSE BuiltAround({Toks(req.response.s)})

\* C27 amended: as stated, for the strings t of characters XML allows and
\* without carriage returns; the declaration is there for every t.
C27_Envelope ==
    pc = "built" =>
        /\ req.xml_data.decl = "UTF-8"
        /\ req.response \in {PyNone, PyStr(<<>>)} => BuiltAround({NoText, Toks(<<>>)})
        /\ (req.response.t = "str" /\ req.response.s # <<>>
               /\ XmlSafeText(Toks(req.response.s))) =>
              BuiltAround({Toks(req.response.s)})

C27_Witness ==
    /\ pc = "built"
    /\ req.response = PyStr(<<"<", "\n">>)
    /\ req.xml_data.root.kids[1].kids[1].text = Toks(<<"&lt;", "\n">>)
    /\ resp.t = "element"
    /\ EchoResponsesOf(resp.el)[1].text = Toks(<<"<", "\n">>)

\* -- outcomes of the request parser
\* the document is well-formed XML in the encoding its bytes are written in
WireWellFormed(data) ==
    /\ data.kind = "xml"
    /\ WellFormed(data.root)
    /\ ~(data.enc = "latin-1" /\ data.decl # "ISO-8859-1" /\ HasNonAscii(data.root))

\* C28: the parser gives one outcome per input, decided in this order:
\* malformed XML (ParseError); else "Empty SOAP Body" when no Body of the
\* envelope namespace is found or the Body is childless; else "Missing
\* EchoRequest element" when the Body has no EchoRequest child; else the
\* request text. A Body with children but no EchoRequest child is never
\* reported as empty.
C28_OutcomeOrder ==
    pc = "parsed_doc" =>
        IF ~WireWellFormed(req.xml_data)
        THEN IsRaise(resp) /\ resp.exc = "ParseError"
        ELSE IF WireBodies(req.xml_data) = <<>> \/ WireBodies(req.xml_data)[1].kids = <<>>
        THEN resp = RaiseMsg("ValueError", "Empty SOAP Body")
        ELSE IF find(WireBodies(req.xml_data)[1], "EchoRequest") = <<>>
        THEN resp = RaiseMsg("ValueError", "Missing EchoRequest element")
        ELSE resp.t = "str"

\* -- the document of a JSON-RPC echo
\* C30: on a successful JSON-RPC echo the op_result of the document in
\* result is the whole validated request object {jsonrpc, method, params,
\* id} as parsed, request.params is the text "None", and with no form fields
\* request.body is the JSON text of the request.
C30_RpcDocument ==
    (Handled("rpc_endpoint") /\ WireSchemaValid(req.data)
        /\ WireMethod(req.data) = <<"echo">>) =>
        /\ resp.t = "response"
        /\ resp.status = 200
        /\ ResponseJson.d["result"].d["op_result"] = json_loads(req.data.ast)
        /\ DOMAIN ResponseJson.d["result"].d["op_result"].d = {"jsonrpc", "method", "params", "id"}
        /\ ResponseJson.d["result"].d["request"].d["params"] = PyStr(<<"None">>)
        /\ req.form = <<>> =>
              ResponseJson.d["result"].d["request"].d["body"] = PyStrOf(req.data)

C30_Witness ==
    /\ Handled("rpc_endpoint")
    /\ WireSchemaValid(req.data)
    /\ WireMethod(req.data) = <<"echo">>
    /\ req.form = <<>>
    /\ Len(req.data.ast.jo["params"].ja) > 0
    /\ ResponseJson.d["result"].d["op_result"].d["params"] = json_loads(req.data.ast.jo["params"])
    /\ ResponseJson.d["result"].d["request"].d["body"] = PyStrOf(req.data)

\* -- requests handled together
\* the response a request gets when it is handled alone
AloneResponse(view, r) ==
    CASE view = "rest" -> rest(r)
      [] view = "rest_param" -> rest_param(r, r.view_args)
      [] view = "echo_soap" -> echo_soap(r)
      [] view = "rpc_endpoint" -> rpc_endpoint(r)

\* C26: however the steps of concurrent REST, SOAP and JSON-RPC requests
\* interleave, each request gets the response it would get when handled
\* alone, and the registry a JSON-RPC request looks its method up in holds
\* exactly the one entry echo.
C26_Stateless ==
    \A i \in Slots :
        /\ pc[i] = "after" => resp[i].out = AloneResponse(route[i], req[i])
        /\ \A k \in 1..Len(resp[i].seen) : resp[i].seen[k] = {<<"echo">>}

C26_Witness ==
    /\ pc[1] = "after" /\ route[1] = "rpc_endpoint"
    /\ resp[1].seen = <<{<<"echo">>}>>
    /\ resp[1].out.status = 200
    /\ "result" \in DOMAIN json_loads(resp[1].out.body.ast).d
    /\ pc[2] = "new_registry" /\ resp[2].registry = {}

\* the statements of the try block of rpc_endpoint, in the order of the code
RpcOrder == <<"decode", "loads", "validate", "lookup", "echo">>

IsPrefix(s, t) == Len(s) <= Len(t) /\ \A k \in 1..Len(s) : s[k] = t[k]

Occurs(s, x) == \E k \in 1..Len(s) : s[k] = x

\* C29: a JSON-RPC request is processed in the order decode, JSON parse,
\* validation, registry lookup, echo, response; the lookup happens only
\* after a successful validation, echo is called at most once, and never
\* after a failed decoding, parse or validation or for a method that is not
\* registered.
C29_Order ==
    \A i \in Slots :
        LET done == resp[i].trace
            work == SelectSeq(done, LAMBDA x : x # "respond") IN
        /\ IsPrefix(work, RpcOrder)
        /\ Occurs(done, "respond") => done = Append(work, "respond")
        /\ Occurs(done, "lookup") =>
              ValidUtf8(req[i].data) /\ WireSchemaValid(req[i].data)
        /\ Occurs(done, "echo") =>
              /\ ValidUtf8(req[i].data) /\ WireSchemaValid(req[i].data)
              /\ WireMethod(req[i].data) = <<"echo">>

C29_Witness ==
    /\ pc[1] = "after" /\ route[1] = "rpc_endpoint"
    /\ resp[1].trace = <<"decode", "loads", "validate", "lookup", "respond">>
    /\ WireMethod(req[1].data) = <<"nope">>
    /\ pc[2] = "after"
    /\ resp[2].trace = <<"decode", "loads", "validate", "lookup", "echo", "respond">>

====
